---- MODULE Spec2Model ----
(***************************************************************************)
(* Model of cli_041_antarctica_ice/contents/src/__init__.py: a periodic    *)
(* job that locates one data file on an FTP server, fetches it with a      *)
(* retry loop, parses and dedupes its records against a Carto table,       *)
(* inserts the new ones and prunes the table by age and by row count.      *)
(*                                                                         *)
(* Representation.                                                         *)
(*  - A timestamp at whole-second resolution is a record [y, s]: the       *)
(*    calendar year and the seconds elapsed since Jan 1 00:00:00 of that   *)
(*    year.  The string '%Y-%m-%d %H:%M:%S' is one-to-one with such a      *)
(*    record, so formatting followed by dateutil's parse is the identity   *)
(*    on it; what formatting loses (the microseconds) is modelled.         *)
(*  - A datetime with microseconds is [y, s, us], us = 0 when it has none  *)
(*    and 1 when it has some (0 < microseconds < 10^6).                    *)
(*  - A decimal year in a data line is the integer year * Den + k,         *)
(*    standing for year + k / Den with Den a power of two, so the value,   *)
(*    its remainder and the product with the seconds of the year are       *)
(*    exact in a double.  The argument of decimalToDatetime on its own is  *)
(*    [year, k, below]: year + k / Den when below = 0, and otherwise the   *)
(*    double `below` steps under year + 1.                                 *)
(*  - A text line is the sequence of its whitespace-separated tokens; a    *)
(*    token is <<kind, value>>.                                            *)
(***************************************************************************)
EXTENDS Integers, Sequences, FiniteSets, TLC

VARIABLES
    pc,            \* position of the run
    err,           \* exception that ended the run, "none" otherwise
    steps,         \* history: orchestration steps executed so far, in order
    tableExists,   \* Carto: whether CARTO_TABLE exists
    table,         \* Carto: rows of CARTO_TABLE
    next_id,       \* Carto: next cartodb_id the store hands out
    MAX_AGE,       \* module constant computed at import (line 39)
    max_rows,      \* argument of deleteExcessRows
    num_expired,   \* main
    existing_ids,  \* main
    num_existing,  \* main
    ftp_contents,  \* fetchDataFileName: the directory listing read
    filename,      \* main
    latency,       \* environment: the longest a failed urlopen takes
    now,           \* tryRetrieveData: time.time() - start
    elapsed,       \* tryRetrieveData
    attempts,      \* history: urlopen calls made by tryRetrieveData
    fetched,       \* tryRetrieveData: which return was taken
    res_rows,      \* processData
    new_data,      \* processData: dict, as its items in insertion order
    num_new,       \* processData: <<>> while unbound, <<n>> once assigned
    batch,         \* history: rows passed to blockInsertRows
    insert_calls,  \* history: calls of blockInsertRows
    table0,        \* history: the table when deleteExcessRows was entered
    trim_ids,      \* deleteExcessRows: ids as returned, newest first
    num_deleted,   \* main
    summary,       \* the figures of the final log line
    dec,           \* decimalToDatetime: argument
    result         \* decimalToDatetime: return value, <<>> before the call

vars == <<pc, err, steps, tableExists, table, next_id, MAX_AGE, max_rows,
          num_expired, existing_ids, num_existing, ftp_contents, filename,
          latency, now, elapsed, attempts, fetched, res_rows, new_data, num_new,
          batch, insert_calls, table0, trim_ids, num_deleted, summary,
          dec, result>>

(***************************************************************************)
(* Bounds of the model                                                     *)
(***************************************************************************)
\* decimal years are multiples of 2^-FracBits
FracBits == 4
\* lines of the fetched data file
MaxLines == 3
\* lines of the directory listing
MaxListing == 2
\* rows of the table handed to deleteExcessRows on its own
MaxTrimRows == 4
\* largest max_rows handed to deleteExcessRows on its own
MaxRowsArg == 3
\* doubles under year + 1 tried as decimal years
MaxUlpsBelow == 2
\* seconds one failed urlopen may take
MaxAttemptDur == 1
\* the row ceiling of the run, scaled down from 10000000 (line 38)
MAX_ROWS == 2

(***************************************************************************)
(* Program constants                                                       *)
(***************************************************************************)
DATE_INDEX == 0
FILENAME_INDEX == -1
MASS_INDEX == 1
UNCERTAINTY_INDEX == 2
STRICT == FALSE
TIMEOUT == 300
SleepSeconds == 5
\* len(CARTO_SCHEMA)
SchemaWidth == 3

Den == 2 ^ FracBits

\* seq[i] with Python's indexing: 0-based, negative counts from the end
PyIndex(seq, i) == IF i < 0 THEN seq[Len(seq) + i + 1] ELSE seq[i + 1]

\* seq[i:] for i >= 0
PySliceFrom(seq, i) == IF i >= Len(seq) THEN <<>> ELSE SubSeq(seq, i + 1, Len(seq))

(***************************************************************************)
(* datetime                                                                *)
(***************************************************************************)
IsLeap(year) == (year % 4 = 0 /\ year % 100 # 0) \/ year % 400 = 0

\* datetime.MINYEAR and datetime.MAXYEAR
MINYEAR == 1
MAXYEAR == 9999

SecondsInYearFixed365(year) == 365 * 86400

\* (base.replace(year=base.year + 1) - base).total_seconds()
SecondsInYear(year) == (IF IsLeap(year) THEN 366 ELSE 365) * 86400

\* datetime + timedelta: carry whole years out of the seconds
RECURSIVE Normalize(_, _)
Normalize(year, secs) ==
    IF secs >= SecondsInYear(year)
    THEN Normalize(year + 1, secs - SecondsInYear(year))
    ELSE [y |-> year, s |-> secs]

\* a < b on whole-second timestamps
DateLT(a, b) == a.y < b.y \/ (a.y = b.y /\ a.s < b.s)

\* dt.strftime('%Y-%m-%d %H:%M:%S'): the microseconds are dropped
Strftime(dt) == [y |-> dt.y, s |-> dt.s]

\* whole-second timestamp a > datetime b (b may carry microseconds)
DateGTMicro(a, b) == DateLT(Strftime(b), a)

\* explicit bits of a double's mantissa
MantissaBits == 52

\* floor(log2(n)), n >= 1: the binade of a double
RECURSIVE Log2Floor(_)
Log2Floor(n) == IF n <= 1 THEN 0 ELSE 1 + Log2Floor(n \div 2)

\* a * b / 2^n rounded to the nearest integer, ties to even, for
\* a < 2^10, b < 2^24 and n >= 13, without leaving 32 bits
RoundShift(a, b, n) ==
    LET low == a * (b % 4096)
        hi == a * (b \div 4096) + low \div 4096
        lo == low % 4096
        q == hi \div (2 ^ (n - 12))
        r == hi % (2 ^ (n - 12))
        half == 2 ^ (n - 13)
        up == r > half \/ (r = half /\ lo > 0) \/ (r = half /\ lo = 0 /\ q % 2 = 1)
    IN  IF up THEN q + 1 ELSE q

\* The microseconds timedelta(seconds=total * rem) falls short of the whole
\* year for rem = 1 - below * 2^-(52 - p), the double `below` steps under
\* year + 1, p the binade of year.  A day is 86400 * 10^6 = 675 * 15625 * 2^13
\* microseconds; timedelta rounds to the nearest microsecond.
MicrosShort(year, below) ==
    RoundShift(below * (SecondsInYear(year) \div 86400), 675 * 15625,
               MantissaBits - 13 - Log2Floor(year))

\* the whole seconds of base + timedelta(seconds=total * rem), the decimal
\* being year + k/Den (below = 0) or the double `below` steps under year + 1
OffsetSeconds(year, k, below) ==
    IF below = 0
    THEN (SecondsInYear(year) * k) \div Den
    ELSE SecondsInYear(year) - (MicrosShort(year, below) + 999999) \div 1000000

\* decimalToDatetime, lines 156-160; datetime(year, 1, 1) and
\* base.replace(year=year + 1) raise ValueError outside MINYEAR..MAXYEAR
DecimalYearToDatetime(year, k, below) ==
    IF year < MINYEAR \/ year + 1 > MAXYEAR
    THEN [error |-> "ValueError", date |-> [y |-> 0, s |-> 0]]
    ELSE [error |-> "none", date |-> Normalize(year, OffsetSeconds(year, k, below))]

\* decimalToDatetime of the decimal year d / Den
DecimalToDatetime(d) == DecimalYearToDatetime(d \div Den, d % Den, 0).date

(***************************************************************************)
(* Remote File Locator                                                     *)
(***************************************************************************)
\* A filename is the sequence of its pieces; ".txt" and "antarctica" are
\* the pieces the selection looks for.
FileNames ==
    { <<"GRACE", "antarctica", ".txt">>,
      <<"antarctica", "v2", ".txt">>,
      <<"ocean", ".txt">>,
      <<"antarctica", ".nc">>,
      <<"antarctica", ".txt", ".bak">>,
      <<"drwxr">> }

\* ''
EmptyName == <<>>

\* potential_filename.endswith(".txt")
EndsWithTxt(name) == Len(name) > 0 /\ name[Len(name)] = ".txt"

\* "antarctica" in potential_filename
ContainsAntarctica(name) == \E i \in 1..Len(name) : name[i] = "antarctica"

\* the condition of line 115
Matches(name) == EndsWithTxt(name) /\ ContainsAntarctica(name)

\* one line of the listing after split(): one or two tokens, the last
\* of them the filename
ListingLines ==
    { <<f>> : f \in FileNames } \cup { <<g, f>> : g \in FileNames, f \in FileNames }

RECURSIVE SeqsUpTo(_, _)
SeqsUpTo(S, n) ==
    IF n = 0 THEN { <<>> }
    ELSE LET shorter == SeqsUpTo(S, n - 1)
         IN  shorter \cup { Append(q, x) : q \in { r \in shorter : Len(r) = n - 1 }, x \in S }

Listings == SeqsUpTo(ListingLines, MaxListing)

\* the listings a whole run may read
MainListings ==
    { <<>>,
      << <<<<"drwxr">>, <<"ocean", ".txt">>>> >>,
      << <<<<"GRACE", "antarctica", ".txt">>>>, <<<<"drwxr">>, <<"antarctica", "v2", ".txt">>>> >> }

RECURSIVE SelectFirst(_, _, _, _)
SelectFirst(contents, i, name, found) ==
    IF i > Len(contents) THEN [filename |-> name, ALREADY_FOUND |-> found]
    ELSE LET potential_filename == PyIndex(contents[i], FILENAME_INDEX)
         IN  IF Matches(potential_filename) /\ ~found
             THEN SelectFirst(contents, i + 1, potential_filename, TRUE)
             ELSE SelectFirst(contents, i + 1, name, found)

\* the loop of lines 109-121 from line i on
RECURSIVE Select(_, _, _, _)
Select(contents, i, name, found) ==
    IF i > Len(contents) THEN [filename |-> name, ALREADY_FOUND |-> found]
    ELSE LET potential_filename == PyIndex(contents[i], FILENAME_INDEX)
         IN  IF Matches(potential_filename)
             THEN Select(contents, i + 1, potential_filename, TRUE)
             ELSE Select(contents, i + 1, name, found)

(***************************************************************************)
(* Record Parser / Deduplicator                                            *)
(***************************************************************************)
Tok(kind, value) == <<kind, value>>

\* row.startswith("HDR"), on a line without leading blanks
StartsWithHDR(line) == Len(line) > 0 /\ line[1][1] = "HDR"

\* float(token) succeeds
IsFloat(token) == token[1] = "num"

\* the decimal years the data lines of a whole run carry: 2016.0, 2016.5, 2017.5
MainDecSeq == << 2016 * Den, 2016 * Den + Den \div 2, 2017 * Den + Den \div 2 >>

MainDecs == { MainDecSeq[i] : i \in 1..Len(MainDecSeq) }

Masses == {1, 2}

\* the lines a fetched data file is made of
DataLines ==
    { << Tok("HDR", 0), Tok("num", 1), Tok("num", 1) >>,
      << Tok("num", MainDecSeq[2]), Tok("num", 1) >>,
      << Tok("txt", 0), Tok("num", 1), Tok("num", 1) >> }
    \cup { << Tok("num", d), Tok("num", m), Tok("num", 1) >> : d \in MainDecs, m \in Masses }

FileContents == SeqsUpTo(DataLines, MaxLines)

\* what the server returns for the directory itself (an empty filename):
\* its listing, every token of it a word
DirectoryAsRows(listing) ==
    [ i \in 1..Len(listing) |-> [ j \in 1..Len(listing[i]) |-> Tok("txt", 0) ] ]

\* a dict is the sequence of its items [key, value] in insertion order
DictKeys(d) == [ i \in 1..Len(d) |-> d[i].key ]

DictValuesButLast(d) == [ i \in 1..(Len(d) - 1) |-> d[i].value ]

\* list(d.values())
DictValues(d) == [ i \in 1..Len(d) |-> d[i].value ]

Range(seq) == { seq[i] : i \in 1..Len(seq) }

\* d[k] = v
DictSet(d, k, v) ==
    IF k \in Range(DictKeys(d))
    THEN [ i \in 1..Len(d) |-> IF d[i].key = k THEN [key |-> k, value |-> v] ELSE d[i] ]
    ELSE Append(d, [key |-> k, value |-> v])

RecentEnoughOrEqual(date, max_age) == ~DateLT(date, Strftime(max_age))

\* recentEnough: parser.parse(date) > MAX_AGE
RecentEnough(date, max_age) == DateGTMicro(date, max_age)

InsertIfNewIgnoringTable(newUID, newValues, existing, data) ==
    IF newUID \notin Range(DictKeys(data))
    THEN DictSet(data, newUID, newValues)
    ELSE data

\* insertIfNew
InsertIfNew(newUID, newValues, existing, data) ==
    LET seen_ids == existing \o DictKeys(data)
    IN  IF newUID \notin Range(seen_ids)
        THEN DictSet(data, newUID, newValues)
        ELSE data

\* the loop of processData, lines 190-202, from row i on; error names the
\* exception that ends it
RECURSIVE ParseRows(_, _, _, _, _)
ParseRows(rows, i, existing, max_age, data) ==
    IF i > Len(rows) THEN [data |-> data, error |-> "none"]
    ELSE LET row == rows[i]
         IN  IF StartsWithHDR(row) \/ Len(row) # SchemaWidth
             THEN ParseRows(rows, i + 1, existing, max_age, data)
             ELSE IF \/ ~IsFloat(PyIndex(row, DATE_INDEX))
                     \/ DecimalYearToDatetime(PyIndex(row, DATE_INDEX)[2] \div Den, 0, 0).error # "none"
             THEN [data |-> data, error |-> "ValueError"]
             ELSE LET date == DecimalToDatetime(PyIndex(row, DATE_INDEX)[2])
                      values == [date |-> date,
                                 mass |-> PyIndex(row, MASS_INDEX)[2],
                                 uncertainty |-> PyIndex(row, UNCERTAINTY_INDEX)[2]]
                  IN  IF RecentEnough(date, max_age)
                      THEN ParseRows(rows, i + 1, existing, max_age,
                                     InsertIfNew(date, values, existing, data))
                      ELSE ParseRows(rows, i + 1, existing, max_age, data)

(***************************************************************************)
(* Carto                                                                   *)
(***************************************************************************)
\* the rows of a table in the order the store lists them (by cartodb_id)
RECURSIVE RowsById(_)
RowsById(tbl) ==
    IF tbl = {} THEN <<>>
    ELSE LET first == CHOOSE r \in tbl : \A q \in tbl : r.cartodb_id <= q.cartodb_id
         IN  <<first>> \o RowsById(tbl \ {first})

\* r.text.split('\r\n') of a one-column csv answer: the header, the cells,
\* and the empty string after the last line end
CsvSplit(header, cells) == <<header>> \o cells \o <<"">>

\* parts[1:-1]
PySlice1ToLast(parts) == IF Len(parts) <= 2 THEN <<>> ELSE SubSeq(parts, 2, Len(parts) - 1)

\* getFields(UID_FIELD, table, f='csv') followed by line 230
ExistingIds(tbl) ==
    LET rows == RowsById(tbl)
    IN  PySlice1ToLast(CsvSplit("date", [ i \in 1..Len(rows) |-> rows[i].date ]))

\* every order "time_field desc" allows for the ids of a table
SortedIdOrders(tbl) ==
    LET n == Cardinality(tbl)
        ids == { r.cartodb_id : r \in tbl }
        dateOf(id) == (CHOOSE r \in tbl : r.cartodb_id = id).date
    IN  { q \in [1..n -> ids] :
            /\ \A i, j \in 1..n : i # j => q[i] # q[j]
            /\ \A i \in 1..n : \A j \in 1..n : i < j => ~DateLT(dateOf(q[i]), dateOf(q[j])) }

\* the rows blockInsertRows adds for a batch of values
NewRows(values, first_id) ==
    { [cartodb_id |-> first_id + i - 1, date |-> values[i].date,
       mass |-> values[i].mass, uncertainty |-> values[i].uncertainty] : i \in 1..Len(values) }

\* the unique index on UID_FIELD accepts the batch
UniqueIndexAccepts(tbl, values) ==
    /\ \A i \in 1..Len(values) : \A r \in tbl : r.date # values[i].date
    /\ \A i, j \in 1..Len(values) : i # j => values[i].date # values[j].date

(***************************************************************************)
(* Inputs                                                                  *)
(***************************************************************************)
Years == {0, 100, 127, 128, 1900, 2000, 2016, 2017, 9998, 9999}

\* the arguments of decimalToDatetime on its own
Decs ==
    { [year |-> y, k |-> k, below |-> 0] : y \in Years, k \in 0..(Den - 1) }
    \cup { [year |-> y, k |-> 0, below |-> b] : y \in Years, b \in 1..MaxUlpsBelow }

NoDec == [year |-> 0, k |-> 0, below |-> 0]

\* tables with a unique date per row
MainTables ==
    { { [cartodb_id |-> i, date |-> DecimalToDatetime(MainDecSeq[i]), mass |-> 0,
         uncertainty |-> 0] : i \in I } : I \in SUBSET (1..Len(MainDecSeq)) }

\* datetime.today() - timedelta(days=365*20), with or without microseconds
MaxAges ==
    { [y |-> DecimalToDatetime(MainDecSeq[i]).y, s |-> DecimalToDatetime(MainDecSeq[i]).s,
       us |-> u] : i \in 1..2, u \in 0..1 }

TrimDates == { DecimalToDatetime(MainDecSeq[i]) : i \in 1..Len(MainDecSeq) }

\* tables of any content, dates repeated or not
TrimTables ==
    UNION { { { [cartodb_id |-> i, date |-> f[i], mass |-> 0, uncertainty |-> 0] : i \in 1..n }
              : f \in [1..n -> TrimDates] } : n \in 0..MaxTrimRows }

\* the first cartodb_id the store gives to an inserted row
FirstNewId == MaxTrimRows + 1

\* the state nothing has touched yet
Untouched ==
    /\ err = "none"
    /\ steps = <<>>
    /\ next_id = FirstNewId
    /\ num_expired = 0
    /\ existing_ids = <<>>
    /\ num_existing = 0
    /\ filename = EmptyName
    /\ now = 0
    /\ elapsed = 0
    /\ attempts = 0
    /\ fetched = "pending"
    /\ res_rows = <<>>
    /\ new_data = <<>>
    /\ num_new = <<>>
    /\ batch = <<>>
    /\ insert_calls = 0
    /\ table0 = {}
    /\ trim_ids = <<>>
    /\ num_deleted = 0
    /\ summary = <<>>
    /\ result = <<>>

\* a run of main
Init ==
    /\ Untouched
    /\ pc = "check_create"
    /\ tableExists \in BOOLEAN
    /\ table \in (IF tableExists THEN MainTables ELSE { {} })
    /\ MAX_AGE \in MaxAges
    /\ max_rows = MAX_ROWS
    /\ ftp_contents \in MainListings
    /\ latency = 0
    /\ dec = NoDec

\* fetchDataFileName on its own
InitLocate ==
    /\ Untouched
    /\ pc = "locate"
    /\ tableExists = TRUE
    /\ table = {}
    /\ MAX_AGE \in { m \in MaxAges : m.us = 0 /\ m.s = 0 }
    /\ max_rows = MAX_ROWS
    /\ ftp_contents \in Listings
    /\ latency = 0
    /\ dec = NoDec

\* tryRetrieveData on its own
InitFetch ==
    /\ Untouched
    /\ pc = "fetch"
    /\ tableExists = TRUE
    /\ table = {}
    /\ MAX_AGE \in { m \in MaxAges : m.us = 0 /\ m.s = 0 }
    /\ max_rows = MAX_ROWS
    /\ ftp_contents = <<>>
    /\ latency \in 0..MaxAttemptDur
    /\ dec = NoDec

\* deleteExcessRows on its own
InitTrim ==
    /\ Untouched
    /\ pc = "trim"
    /\ tableExists = TRUE
    /\ table \in TrimTables
    /\ MAX_AGE \in { m \in MaxAges : m.us = 0 /\ m.s = 0 }
    /\ max_rows \in 0..MaxRowsArg
    /\ ftp_contents = <<>>
    /\ latency = 0
    /\ dec = NoDec

\* decimalToDatetime on its own
InitDate ==
    /\ Untouched
    /\ pc = "convert"
    /\ tableExists = TRUE
    /\ table = {}
    /\ MAX_AGE \in { m \in MaxAges : m.us = 0 /\ m.s = 0 }
    /\ max_rows = MAX_ROWS
    /\ ftp_contents = <<>>
    /\ latency = 0
    /\ dec \in Decs

(***************************************************************************)
(* Operations                                                              *)
(***************************************************************************)
cartoVars == <<tableExists, table, next_id>>
configVars == <<MAX_AGE, max_rows, latency>>
clockVars == <<now, elapsed, attempts, fetched>>
processVars == <<res_rows, new_data, num_new, batch, insert_calls>>
trimVars == <<table0, trim_ids, num_deleted>>
dateVars == <<dec, result>>

LogAndContinue(exception) ==
    /\ pc' = "trim"
    /\ err' = exception

\* an exception nothing catches ends the run
Raise(exception) ==
    /\ pc' = "failed"
    /\ err' = exception

\* checkCreateTable, called at line 223
CheckCreateTable ==
    /\ pc = "check_create"
    /\ steps' = Append(steps, "ensure_schema")
    /\ \E ok \in BOOLEAN :
        IF ~ok
        THEN Raise("CartoError") /\ UNCHANGED cartoVars
        ELSE /\ pc' = "clean"
             /\ err' = err
             /\ tableExists' = TRUE
             /\ table' = IF tableExists THEN table ELSE {}
             /\ next_id' = next_id
    /\ UNCHANGED <<configVars, num_expired, existing_ids, num_existing, ftp_contents,
                   filename, clockVars, processVars, trimVars, summary, dateVars>>

\* the rows "time_field < 'max_age'" selects, max_age formatted at line 69
ExpiredRows(tbl, max_age) == { r \in tbl : DateLT(r.date, Strftime(max_age)) }

\* cleanOldRows, called at line 226
CleanOldRows ==
    /\ pc = "clean"
    /\ steps' = Append(steps, "age_sweep")
    /\ \E ok \in BOOLEAN :
        IF ~ok
        THEN Raise("CartoError") /\ UNCHANGED <<table, num_expired>>
        ELSE /\ pc' = "get_existing"
             /\ err' = err
             /\ table' = IF tableExists THEN table \ ExpiredRows(table, MAX_AGE) ELSE table
             /\ num_expired' = IF tableExists THEN Cardinality(ExpiredRows(table, MAX_AGE)) ELSE 0
    /\ UNCHANGED <<tableExists, next_id, configVars, existing_ids, num_existing, ftp_contents,
                   filename, clockVars, processVars, trimVars, summary, dateVars>>

\* main, lines 229-231
GetExistingIds ==
    /\ pc = "get_existing"
    /\ steps' = Append(steps, "fetch_existing")
    /\ \E ok \in BOOLEAN :
        IF ~ok
        THEN Raise("CartoError") /\ UNCHANGED <<existing_ids, num_existing>>
        ELSE /\ pc' = "locate"
             /\ err' = err
             /\ existing_ids' = ExistingIds(table)
             /\ num_existing' = Len(ExistingIds(table))
    /\ UNCHANGED <<cartoVars, configVars, num_expired, ftp_contents,
                   filename, clockVars, processVars, trimVars, summary, dateVars>>

\* fetchDataFileName, called at line 236
FetchDataFileName ==
    /\ pc = "locate"
    /\ steps' = Append(steps, "locate")
    /\ \E ok \in BOOLEAN :
        IF ~ok
        THEN Raise("URLError") /\ UNCHANGED filename
        ELSE /\ pc' = "fetch"
             /\ err' = err
             /\ filename' = Select(ftp_contents, 1, EmptyName, FALSE).filename
    /\ UNCHANGED <<cartoVars, configVars, num_expired, existing_ids, num_existing,
                   ftp_contents, clockVars, processVars, trimVars, summary, dateVars>>

SleepShort == SleepSeconds - 1

\* time.sleep(5)
Sleep == SleepSeconds

\* tryRetrieveData: one turn of the loop of lines 134-142.  The frame of
\* the call (now, elapsed, attempts) is dropped on the return of line 139.
FetchAttempt ==
    /\ pc = "fetch"
    /\ elapsed < TIMEOUT
    /\ \E ok \in BOOLEAN : \E duration \in 0..latency :
        IF ok
        THEN /\ fetched' = "rows"
             /\ elapsed' = 0
             /\ attempts' = 0
             /\ now' = 0
             /\ pc' = "parse"
        ELSE /\ fetched' = fetched
             /\ elapsed' = now
             /\ attempts' = attempts + 1
             /\ now' = now + duration + Sleep
             /\ pc' = "fetch"
    /\ UNCHANGED <<err, steps, cartoVars, configVars, num_expired, existing_ids, num_existing,
                   ftp_contents, filename, processVars, trimVars, summary, dateVars>>

\* tryRetrieveData: lines 144-147, the loop left on the timeout.  The frame
\* stays in view until processData takes the result over.
FetchTimeout ==
    /\ pc = "fetch"
    /\ ~(elapsed < TIMEOUT)
    /\ IF STRICT
       THEN Raise("NameError") /\ fetched' = fetched
       ELSE pc' = "parse" /\ err' = err /\ fetched' = "empty"
    /\ UNCHANGED <<steps, cartoVars, configVars, num_expired, existing_ids, num_existing,
                   ftp_contents, filename, now, elapsed, attempts, processVars, trimVars,
                   summary, dateVars>>

\* what tryRetrieveData returned
Retrieved ==
    IF fetched = "empty" THEN { <<>> }
    ELSE IF filename = EmptyName THEN { DirectoryAsRows(ftp_contents) }
    ELSE FileContents

\* processData, lines 188-202: the rows are taken over and parsed
ProcessRows ==
    /\ pc = "parse"
    /\ steps' = Append(steps, "fetch_parse_dedupe")
    /\ \E rows \in Retrieved :
        LET parsed == ParseRows(rows, 1, existing_ids, MAX_AGE, <<>>)
        IN  /\ res_rows' = rows
            /\ new_data' = parsed.data
            /\ IF parsed.error = "none"
               THEN pc' = "insert" /\ err' = err
               ELSE Raise(parsed.error)
    /\ now' = 0
    /\ elapsed' = 0
    /\ attempts' = 0
    /\ UNCHANGED <<cartoVars, configVars, num_expired, existing_ids, num_existing,
                   ftp_contents, filename, fetched, num_new, batch, insert_calls,
                   trimVars, summary, dateVars>>

\* processData, lines 204-209: the batched insert and the return
ProcessInsert ==
    /\ pc = "insert"
    /\ IF Len(new_data) > 0
       THEN /\ num_new' = <<Len(new_data)>>
            /\ batch' = DictValues(new_data)
            /\ insert_calls' = insert_calls + 1
            /\ steps' = Append(steps, "insert")
            /\ \E ok \in BOOLEAN :
                IF ok /\ UniqueIndexAccepts(table, DictValues(new_data))
                THEN /\ table' = table \cup NewRows(DictValues(new_data), next_id)
                     /\ next_id' = next_id + Len(new_data)
                     /\ pc' = "trim"
                     /\ err' = err
                ELSE Raise("CartoError") /\ UNCHANGED <<table, next_id>>
       ELSE /\ Raise("UnboundLocalError")
            /\ UNCHANGED <<num_new, batch, insert_calls, steps, table, next_id>>
    /\ UNCHANGED <<tableExists, configVars, num_expired, existing_ids, num_existing,
                   ftp_contents, filename, clockVars, res_rows, new_data,
                   trimVars, summary, dateVars>>

ExcessIdsOffByOne(ids, limit) == PySliceFrom(ids, limit + 1)

\* ids[max_rows:] of line 90
ExcessIds(ids, limit) == PySliceFrom(ids, limit)

\* deleteExcessRows, called at line 240
DeleteExcessRows ==
    /\ pc = "trim"
    /\ steps' = Append(steps, "count_trim")
    /\ table0' = table
    /\ \E ok \in BOOLEAN :
        IF ~ok
        THEN Raise("CartoError") /\ UNCHANGED <<table, trim_ids, num_deleted>>
        ELSE \E order \in SortedIdOrders(table) :
               LET ids == PySlice1ToLast(CsvSplit("cartodb_id", order))
                   excess == IF Len(ids) > max_rows THEN Range(ExcessIds(ids, max_rows)) ELSE {}
                   deleted == { r \in table : r.cartodb_id \in excess }
               IN  /\ trim_ids' = ids
                   /\ table' = table \ deleted
                   /\ num_deleted' = Cardinality(deleted)
                   /\ pc' = "summary"
                   /\ err' = err
    /\ UNCHANGED <<tableExists, next_id, configVars, num_expired, existing_ids, num_existing,
                   ftp_contents, filename, clockVars, processVars, summary, dateVars>>

\* main, lines 243-244
LogSummary ==
    /\ pc = "summary"
    /\ steps' = Append(steps, "summary")
    /\ summary' = << [expired |-> num_expired, previous |-> num_existing, new |-> num_new[1],
                      dropped |-> num_deleted, max |-> max_rows] >>
    /\ pc' = "done"
    /\ UNCHANGED <<err, cartoVars, configVars, num_expired, existing_ids, num_existing,
                   ftp_contents, filename, clockVars, processVars, trimVars, dateVars>>

\* decimalToDatetime applied to dec
Convert ==
    /\ pc = "convert"
    /\ LET converted == DecimalYearToDatetime(dec.year, dec.k, dec.below)
       IN  IF converted.error = "none"
           THEN /\ result' = << converted.date >>
                /\ pc' = "converted"
                /\ err' = err
           ELSE Raise(converted.error) /\ result' = result
    /\ UNCHANGED <<steps, cartoVars, configVars, num_expired, existing_ids, num_existing,
                   ftp_contents, filename, clockVars, processVars, trimVars, summary, dec>>

(***************************************************************************)
(* Specifications                                                          *)
(***************************************************************************)
Next ==
    \/ CheckCreateTable
    \/ CleanOldRows
    \/ GetExistingIds
    \/ FetchDataFileName
    \/ FetchAttempt
    \/ FetchTimeout
    \/ ProcessRows
    \/ ProcessInsert
    \/ DeleteExcessRows
    \/ LogSummary

Spec == Init /\ [][Next]_vars

NextLocate == FetchDataFileName

SpecLocate == InitLocate /\ [][NextLocate]_vars

NextFetch == FetchAttempt \/ FetchTimeout

\* a running process takes its next step
SpecFetch == InitFetch /\ [][NextFetch]_vars /\ WF_vars(NextFetch)

NextTrim == DeleteExcessRows

SpecTrim == InitTrim /\ [][NextTrim]_vars

NextDate == Convert

SpecDate == InitDate /\ [][NextDate]_vars

(***************************************************************************)
(* Properties                                                              *)
(***************************************************************************)
\* processData has parsed every row without an exception
Parsed == "fetch_parse_dedupe" \in Range(steps) /\ err # "ValueError"

\* the lines of res_rows that are no header and have the width of the schema
WellFormed(i) == Len(res_rows[i]) = 3 /\ res_rows[i][1][1] # "HDR"

\* the timestamp a well-formed line stands for
LineDate(i) == DecimalToDatetime(res_rows[i][1][2])

\* date <= cutoff, the cutoff carrying microseconds or not
NotNewer(date, cutoff) ==
    date.y < cutoff.y \/ (date.y = cutoff.y /\ date.s <= cutoff.s)

\* date < cutoff
StrictlyOlder(date, cutoff) ==
    \/ date.y < cutoff.y
    \/ (date.y = cutoff.y /\ date.s < cutoff.s)
    \/ (date.y = cutoff.y /\ date.s = cutoff.s /\ cutoff.us > 0)

\* C1: the batch handed to blockInsertRows holds no identifier of
\* existing_ids and no identifier twice, whatever the lines repeat; an
\* identifier met again keeps the values of its first line.
C1_BatchIsNewAndUnique ==
    insert_calls > 0 =>
        /\ \A i \in 1..Len(batch) : batch[i].date \notin Range(existing_ids)
        /\ \A i, j \in 1..Len(batch) : i # j => batch[i].date # batch[j].date
        /\ \A i \in 1..Len(batch) :
             \E k \in 1..Len(res_rows) :
                /\ WellFormed(k)
                /\ LineDate(k) = batch[i].date
                /\ res_rows[k][2][2] = batch[i].mass
                /\ \A h \in 1..(k - 1) : WellFormed(h) => LineDate(h) # LineDate(k)

\* an insert whose file repeats an identifier with other values and also
\* names an identifier of the table
C1_Witness ==
    /\ insert_calls > 0
    /\ \E h, k \in 1..Len(res_rows) :
         /\ h < k
         /\ WellFormed(h) /\ WellFormed(k)
         /\ LineDate(h) = LineDate(k)
         /\ res_rows[h][2][2] # res_rows[k][2][2]
         /\ \E i \in 1..Len(batch) : batch[i].date = LineDate(h)
    /\ \E k \in 1..Len(res_rows) : WellFormed(k) /\ LineDate(k) \in Range(existing_ids)

\* C2: a run whose rows yield no new record is not fatal: processData
\* returns 0 without raising and main goes on to the count trim.
C2_ZeroNewIsNotFatal ==
    (Parsed /\ pc # "insert" /\ Len(new_data) = 0) =>
        /\ err # "UnboundLocalError"
        /\ (err = "none" => num_new = <<0>>)

\* C3: blockInsertRows is called at most once a run, and the count
\* processData returns, which main reports, is the number of rows it wrote.
C3_CountIsRowsInserted ==
    /\ insert_calls <= 1
    /\ num_new # <<>> => (insert_calls = 1 /\ num_new[1] = Len(batch))
    /\ pc = "trim" =>
         /\ num_new # <<>>
         /\ Cardinality({ r \in table : r.cartodb_id >= FirstNewId }) = num_new[1]
         /\ { r.date : r \in { q \in table : q.cartodb_id >= FirstNewId } }
              = { batch[i].date : i \in 1..Len(batch) }
    /\ summary # <<>> => summary[1].new = Len(batch)

\* the run of the example: the table holds the first identifier, the file
\* a header, a line of that identifier and a line of a newer one
C3_Witness ==
    /\ pc = "done"
    /\ Len(existing_ids) = 1
    /\ Len(res_rows) = 3
    /\ res_rows[1][1][1] = "HDR"
    /\ WellFormed(2) /\ LineDate(2) = existing_ids[1]
    /\ WellFormed(3) /\ DateLT(LineDate(2), LineDate(3))
    /\ Len(batch) = 1 /\ batch[1].date = LineDate(3)
    /\ summary[1].new = 1

\* C4: with every attempt failing and STRICT off, tryRetrieveData makes at
\* most TIMEOUT / 5 + 1 attempts, has waited 5 after each, never raises,
\* and returns the empty sequence.
C4_FetchGivesUp ==
    /\ [](/\ attempts <= TIMEOUT \div SleepSeconds + 1
          /\ (pc = "fetch" \/ fetched = "empty") => now >= SleepSeconds * attempts
          /\ pc # "failed"
          /\ fetched = "empty" => (attempts >= 1 /\ elapsed >= TIMEOUT))
    /\ <>(pc = "parse")

\* the empty return after the largest number of attempts
C4_Witness == pc = "parse" /\ fetched = "empty" /\ attempts = TIMEOUT \div SleepSeconds + 1

C6_OnlyRecentRecords ==
    Parsed =>
        /\ \A i \in 1..Len(new_data) : ~NotNewer(new_data[i].key, MAX_AGE)
        /\ \A k \in 1..Len(res_rows) :
             (WellFormed(k) /\ ~NotNewer(LineDate(k), MAX_AGE)
                /\ LineDate(k) \notin Range(existing_ids))
             => \E i \in 1..Len(new_data) : new_data[i].key = LineDate(k)

\* a file with a line dated exactly at the cutoff, dropped, and a newer
\* line, kept
C6_Witness ==
    /\ pc = "insert"
    /\ MAX_AGE.us = 0
    /\ \E k \in 1..Len(res_rows) :
         /\ WellFormed(k)
         /\ LineDate(k) = [y |-> MAX_AGE.y, s |-> MAX_AGE.s]
         /\ LineDate(k) \notin Range(existing_ids)
    /\ Len(new_data) >= 1

\* the lines of the listing whose last token ends with ".txt" and
\* contains "antarctica"
MatchingLines ==
    { i \in 1..Len(ftp_contents) :
        LET name == ftp_contents[i][Len(ftp_contents[i])]
        IN  name[Len(name)] = ".txt" /\ \E j \in 1..Len(name) : name[j] = "antarctica" }

\* C7: fetchDataFileName returns '' when no line of the listing matches and
\* the filename of the last matching line otherwise; only urlopen raises.
C7_LastMatchOrEmpty ==
    /\ pc = "fetch" =>
         IF MatchingLines = {}
         THEN filename = <<>>
         ELSE \E i \in MatchingLines :
                 /\ \A j \in MatchingLines : j <= i
                 /\ filename = ftp_contents[i][Len(ftp_contents[i])]
    /\ err \in {"none", "URLError"}

\* two matching lines of different names, the second returned
C7_Witness ==
    /\ pc = "fetch"
    /\ Cardinality(MatchingLines) = 2
    /\ ftp_contents[1][Len(ftp_contents[1])] # ftp_contents[2][Len(ftp_contents[2])]
    /\ filename = ftp_contents[2][Len(ftp_contents[2])]

MainOrder ==
    << "ensure_schema", "age_sweep", "fetch_existing", "locate", "fetch_parse_dedupe",
       "insert", "count_trim", "summary" >>

\* C8: the steps of main run in the fixed order, each once, and nothing
\* runs after an exception or after the summary.
C8_StepsInOrder ==
    [][ /\ pc \notin {"failed", "done"}
        /\ \/ steps' = steps
           \/ /\ Len(steps) < Len(MainOrder)
              /\ steps' = Append(steps, MainOrder[Len(steps) + 1]) ]_vars

\* a run that went through every step
C8_Witness == pc = "done" /\ steps = MainOrder /\ err = "none"

\* the seconds of the calendar year, 366 days when it is a leap year
YearLength(year) ==
    IF (year % 4 = 0 /\ year % 100 # 0) \/ year % 400 = 0 THEN 31622400 ELSE 31536000

\* the result is in dec.year, at the whole second of Jan 1 plus the
\* fraction of the year's exact length
InterpolatedInYear ==
    LET r == result[1]
        total == YearLength(dec.year)
    IN  /\ r.y = dec.year
        /\ r.s < total
        /\ dec.below = 0 => (r.s * Den <= total * dec.k /\ total * dec.k < (r.s + 1) * Den)
        /\ (dec.below = 0 /\ dec.k = 0) => r.s = 0
        /\ dec.below > 0 => r.s = total - 1

C10_RetentionHolds ==
    pc = "done" =>
        /\ Cardinality(table) <= MAX_ROWS
        /\ \A r \in table : ~StrictlyOlder(r.date, MAX_AGE)
        /\ \A r, q \in table : r.date = q.date => r = q

====
